---- MODULE Spec2Model ----
(***************************************************************************)
(* Knowledge-base replication and search of the Cherry Studio API server.  *)
(*                                                                         *)
(*   main process      KnowledgeStoreService (the replica) and             *)
(*                     ApiKnowledgeService (listBases / search)            *)
(*   renderer process  KnowledgeStoreSyncService (the owner-side           *)
(*                     controller pushing snapshots of the redux store)    *)
(*                                                                         *)
(* Optional values (T | undefined | null) are sequences of length <= 1:    *)
(* None is <<>>, Some(v) is <<v>>.  Scores and thresholds are in           *)
(* hundredths (0.1 is 10).  Identifiers of knowledge bases are unique in   *)
(* the redux store, so a snapshot never carries one identifier twice.      *)
(***************************************************************************)
EXTENDS Integers, Sequences, FiniteSets, TLC

VARIABLES
    \* ---- main process: KnowledgeStoreService
    bases,          \* Map<string, KnowledgeBaseSyncPayload>, in insertion order
    isActive,       \* boolean
    lastSyncedAt,   \* number | null
    mainWindow,     \* windowService.getMainWindow() is defined
    now,            \* Date.now()
    \* ---- channels between the two processes
    toRenderer,     \* webContents.send(...) messages not yet handled
    toMain,         \* syncBases(payload) invocations not yet handled
    \* ---- renderer process: redux store and KnowledgeStoreSyncService
    store,          \* [bases, knowledgeBaseIds]
    isSyncing,
    lastSignature,  \* string | undefined
    unsubscribe,    \* the field holds the handle store.subscribe returned
    listeners,      \* callbacks of the service registered with the store
    \* ---- main process: one ApiKnowledgeService.search invocation
    search,
    \* ---- observation
    lastCall,       \* the operation that ran last, its input and what it returned
    hist            \* history since the session / the controller last started

vars == <<bases, isActive, lastSyncedAt, mainWindow, now, toRenderer, toMain,
          store, isSyncing, lastSignature, unsubscribe, listeners, search,
          lastCall, hist>>

mainVars == <<bases, isActive, lastSyncedAt>>
rendererVars == <<store, isSyncing, lastSignature, unsubscribe, listeners>>

-----------------------------------------------------------------------------
(* Bounds *)

MaxClock == 3        \* Date.now() takes the values 1..MaxClock
MaxInFlight == 2     \* messages in one direction of the channel
MaxRetrieved == 2    \* length of a retrieval result
MaxPushes == 2       \* the counters of accepted syncs and of pushes saturate here
MaxOverTopK == 2     \* a request body's top_k goes up to MAX_KNOWLEDGE_TOP_K + MaxOverTopK
MaxDocumentCount == 3  \* a base's documentCount goes up to this
MaxAllowList == 2    \* length of settings.apiServer.knowledgeBaseIds

-----------------------------------------------------------------------------
(* Optional values *)

None == <<>>
Some(v) == <<v>>
IsSome(o) == o # <<>>
\* a ?? b
Coalesce(o, d) == IF o # <<>> THEN o[1] ELSE d

Min(x, y) == IF x <= y THEN x ELSE y

\* Array.prototype.slice(0, n) for n >= 0
Slice(s, n) == SubSeq(s, 1, Min(n, Len(s)))

Range(s) == {s[i] : i \in 1..Len(s)}

\* sequences over S of length <= n
SeqsUpTo(S, n) == UNION {[1..k -> S] : k \in 0..n}

-----------------------------------------------------------------------------
(* Data: KnowledgeBase (renderer), KnowledgeBaseSummary and                *)
(* KnowledgeBaseSyncPayload (both sides)                                   *)

Ids == {"a", "b"}

\* A KnowledgeBase of the redux store, reduced to the fields the two services read.
KnowledgeBase(id, name, version, itemCount, documentCount, threshold, rerankModel) ==
    [id |-> id, name |-> name, updated_at |-> version, version |-> version,
     items |-> itemCount, documentCount |-> documentCount, threshold |-> threshold,
     rerankModel |-> rerankModel]

\* getKnowledgeBaseParams(base): the embedding client, the optional rerank
\* client and the identifier of the base.  A rerank client is told by the
\* model it names.
getKnowledgeBaseParams(base) ==
    [id |-> base.id, rerankApiClient |-> base.rerankModel]

toSummary(base) ==
    [id |-> base.id, name |-> base.name, documentCount |-> base.documentCount,
     threshold |-> base.threshold, updated_at |-> base.updated_at,
     version |-> base.version, rerankModel |-> base.rerankModel]

SyncEntry(base) == [metadata |-> toSummary(base), params |-> getKnowledgeBaseParams(base)]

\* The knowledge bases the model draws from.  "a" in its first form is the
\* base of KnowledgeStoreService.test.ts (Docs, documentCount 10, threshold 0.1,
\* no rerank model).
BasePool ==
    { KnowledgeBase("a", "Docs", 1, 0, Some(10), Some(10), None),
      KnowledgeBase("a", "Docs2", 2, 1, None, None, None),
      KnowledgeBase("b", "Notes", 1, 0, Some(1), Some(50), Some("rerank-model")) }

EntryPool == {SyncEntry(b) : b \in BasePool}

EntryId(e) == e.metadata.id

DistinctIds(p) == \A i, j \in 1..Len(p) : EntryId(p[i]) = EntryId(p[j]) => i = j

\* The snapshots handed to the syncBases handler: every sequence of entries
\* with pairwise distinct identifiers.
PayloadPool ==
    {p \in SeqsUpTo(EntryPool, Cardinality(Ids)) : DistinctIds(p)}

-----------------------------------------------------------------------------
(* KnowledgeStoreService (main process)                                    *)

\* Map.prototype.set: an existing key keeps its position
MapSet(m, entry) ==
    IF \E i \in 1..Len(m) : EntryId(m[i]) = EntryId(entry)
    THEN [i \in 1..Len(m) |-> IF EntryId(m[i]) = EntryId(entry) THEN entry ELSE m[i]]
    ELSE Append(m, entry)

RECURSIVE SetAll(_, _)
SetAll(m, payload) ==
    IF payload = <<>> THEN m ELSE SetAll(MapSet(m, Head(payload)), Tail(payload))

MapHas(m, id) == \E i \in 1..Len(m) : EntryId(m[i]) = id
\* Map.prototype.get
MapGet(m, id) ==
    IF MapHas(m, id) THEN Some(m[CHOOSE i \in 1..Len(m) : EntryId(m[i]) = id]) ELSE None

getBasesOf(m) == [i \in 1..Len(m) |-> m[i].metadata]
getBases == getBasesOf(bases)
getBase(id) == MapGet(bases, id)
getBaseParams(id) == IF getBase(id) = None THEN None ELSE Some(getBase(id)[1].params)
hasBases == Len(bases) > 0
isSyncActive == isActive
getLastSyncedAt == lastSyncedAt

\* mainWindow.webContents.send(channel), skipped without a main window
Send(msg) ==
    toRenderer' = IF mainWindow THEN Append(toRenderer, msg) ELSE toRenderer
Sent(msg) == IF mainWindow THEN <<msg>> ELSE <<>>

\* the channel holds at most MaxInFlight messages
CanSend == mainWindow => Len(toRenderer) < MaxInFlight

requestSyncFromRenderer_OnlyWhenInactive ==
    IF isActive THEN UNCHANGED toRenderer ELSE Send("requestSync")

\* lines 70-77
requestSyncFromRenderer == Send("requestSync")

sendStopSignal_Nothing == UNCHANGED toRenderer

\* lines 79-85
sendStopSignal == Send("stopSync")

\* The three fields of the service, as the methods below read and write them.
Replica == [bases |-> bases, isActive |-> isActive, lastSyncedAt |-> lastSyncedAt]
SetReplica(r) ==
    /\ bases' = r.bases
    /\ isActive' = r.isActive
    /\ lastSyncedAt' = r.lastSyncedAt

startSync(r) == [r EXCEPT !.isActive = TRUE]

stopSync_KeepsBases(r) ==
    IF ~r.isActive THEN r
    ELSE [r EXCEPT !.isActive = FALSE, !.lastSyncedAt = None]

stopSync(r) ==
    IF ~r.isActive THEN r
    ELSE [bases |-> <<>>, isActive |-> FALSE, lastSyncedAt |-> None]

handleSyncPayload_Unguarded(r, payload, t) ==
    [replica |-> [bases |-> SetAll(<<>>, payload), isActive |-> r.isActive,
                  lastSyncedAt |-> Some(t)],
     ret |-> [accepted |-> TRUE, syncedAt |-> t]]

handleSyncPayload_Merges(r, payload, t) ==
    IF ~r.isActive
    THEN [replica |-> r, ret |-> [accepted |-> FALSE]]
    ELSE [replica |-> [bases |-> SetAll(r.bases, payload), isActive |-> TRUE,
                       lastSyncedAt |-> Some(t)],
          ret |-> [accepted |-> TRUE, syncedAt |-> t]]

\* handleSyncPayload(payload) at time t: the fields it leaves and what it returns
handleSyncPayload(r, payload, t) ==
    IF ~r.isActive
    THEN [replica |-> r, ret |-> [accepted |-> FALSE]]
    ELSE [replica |-> [bases |-> SetAll(<<>>, payload), isActive |-> TRUE,
                       lastSyncedAt |-> Some(t)],
          ret |-> [accepted |-> TRUE, syncedAt |-> t]]

IdsOf(m) == {EntryId(m[i]) : i \in 1..Len(m)}

\* startSync(), lines 34-43
StartSyncStep ==
    /\ CanSend
    /\ SetReplica(startSync(Replica))
    /\ requestSyncFromRenderer
    /\ hist' = IF isActive THEN hist ELSE [hist EXCEPT !.accepted = FALSE]
    /\ UNCHANGED <<mainWindow, now, toMain, rendererVars, search>>

\* stopSync(), lines 45-54
StopSyncStep ==
    /\ isActive => CanSend
    /\ SetReplica(stopSync(Replica))
    /\ IF isActive THEN sendStopSignal ELSE UNCHANGED toRenderer
    /\ hist' = [hist EXCEPT !.accepted = FALSE]
    /\ UNCHANGED <<mainWindow, now, toMain, rendererVars, search>>

\* handleSyncPayload(payload), lines 56-68
HandleSyncPayloadStep(payload) ==
    LET out == handleSyncPayload(Replica, payload, now) IN
    /\ SetReplica(out.replica)
    /\ hist' = IF out.ret.accepted
               THEN [hist EXCEPT !.accepted = TRUE]
               ELSE hist
    /\ UNCHANGED <<mainWindow, now, toRenderer, rendererVars, search>>

\* The same three, with what was called and returned written to lastCall.
MainStartSync ==
    /\ StartSyncStep
    /\ lastCall' = [op |-> "startSync", wasActive |-> isActive,
                    sent |-> Sent("requestSync")]

MainStopSync ==
    /\ StopSyncStep
    /\ lastCall' = [op |-> "stopSync", wasActive |-> isActive, had |-> IdsOf(bases),
                    sent |-> IF isActive THEN Sent("stopSync") ELSE <<>>,
                    again |-> lastCall.op = "stopSync"]

HandleSyncPayload(payload) ==
    /\ HandleSyncPayloadStep(payload)
    /\ lastCall' = [op |-> "handleSyncPayload", wasActive |-> isActive,
                    had |-> IdsOf(bases), payload |-> payload,
                    ret |-> handleSyncPayload(Replica, payload, now).ret]

\* ipcMain.handle(KnowledgeStore_SyncBases): a snapshot handed to the handler
SyncBasesInvoked ==
    /\ \E payload \in PayloadPool : HandleSyncPayload(payload)
    /\ UNCHANGED toMain

-----------------------------------------------------------------------------
(* ApiKnowledgeService.listBases (main process)                            *)

\* new Date(ms).toISOString(): the ISO-8601 text of the instant; two
\* timestamps give the same text only when they are the same millisecond
toISOString(ms) == [iso8601 |-> ms]

listBases_ActiveOnly(r) ==
    IF ~r.isActive
    THEN [ok |-> FALSE, error |-> "NotReady"]
    ELSE [ok |-> TRUE, object |-> "list", data |-> getBasesOf(r.bases),
          total |-> Len(getBasesOf(r.bases)),
          syncedAt |-> IF r.lastSyncedAt # None /\ r.lastSyncedAt[1] # 0
                       THEN Some(toISOString(r.lastSyncedAt[1]))
                       ELSE None]

\* lines 15-29; a null or zero timestamp is falsy and gives no syncedAt
listBases(r) ==
    IF ~r.isActive \/ ~(Len(r.bases) > 0)
    THEN [ok |-> FALSE, error |-> "NotReady"]
    ELSE [ok |-> TRUE, object |-> "list", data |-> getBasesOf(r.bases),
          total |-> Len(getBasesOf(r.bases)),
          syncedAt |-> IF r.lastSyncedAt # None /\ r.lastSyncedAt[1] # 0
                       THEN Some(toISOString(r.lastSyncedAt[1]))
                       ELSE None]

\* GET /bases reaches listBases; nothing of the replica changes
ListBasesCalled ==
    /\ lastCall' = [op |-> "listBases", ret |-> listBases(Replica)]
    /\ UNCHANGED <<mainVars, mainWindow, now, toRenderer, toMain, rendererVars,
                   search, hist>>

-----------------------------------------------------------------------------
(* Environment of the main process                                         *)

\* time passes
Tick ==
    /\ now < MaxClock
    /\ now' = now + 1
    /\ lastCall' = [op |-> "tick"]
    /\ UNCHANGED <<mainVars, mainWindow, toRenderer, toMain, rendererVars, search, hist>>

\* the main window is created or destroyed
WindowChanges ==
    /\ mainWindow' = ~mainWindow
    /\ lastCall' = [op |-> "window"]
    /\ UNCHANGED <<mainVars, now, toRenderer, toMain, rendererVars, search, hist>>

\* the renderer takes a message off the channel (its reaction is
\* KnowledgeStoreSyncService's, below)
RendererTakes ==
    /\ toRenderer # <<>>
    /\ toRenderer' = Tail(toRenderer)
    /\ lastCall' = [op |-> "taken", msg |-> Head(toRenderer)]
    /\ UNCHANGED <<mainVars, mainWindow, now, toMain, rendererVars, search, hist>>

-----------------------------------------------------------------------------
(* Initial state: both services constructed, nothing synced                *)

SearchIdle == [pc |-> "idle"]

Init ==
    /\ bases = <<>>
    /\ isActive = FALSE
    /\ lastSyncedAt = None
    /\ mainWindow \in BOOLEAN
    /\ now = 1
    /\ toRenderer = <<>>
    /\ toMain = <<>>
    /\ store = [bases |-> <<>>, knowledgeBaseIds |-> <<>>]
    /\ isSyncing = FALSE
    /\ lastSignature = None
    /\ unsubscribe = FALSE
    /\ listeners = 0
    /\ search = SearchIdle
    /\ lastCall = [op |-> "init"]
    /\ hist = [accepted |-> FALSE, pushes |-> 0, mutations |-> 0, changed |-> FALSE,
               refreshed |-> FALSE]

\* The replica alone: its three entry points, driven by the API server's
\* lifecycle and by snapshots arriving at the IPC handler.
NextReplica ==
    \/ MainStartSync
    \/ MainStopSync
    \/ SyncBasesInvoked
    \/ ListBasesCalled
    \/ Tick
    \/ WindowChanges
    \/ RendererTakes

SpecReplica == Init /\ [][NextReplica]_vars

-----------------------------------------------------------------------------
(* ApiKnowledgeService.search (main process)                               *)
(*                                                                         *)
(* One invocation at a time is followed; an invocation shares nothing with *)
(* another but the replica it reads.  The function runs without            *)
(* interruption up to its next await: the retrieval and the rerank call    *)
(* are where the replica's handlers can run in between.                    *)

\* @shared/config/knowledge is not among the sources at hand: 30 is the
\* maximum the OpenAPI schema states for top_k, the two defaults are the
\* application's.
DEFAULT_KNOWLEDGE_DOCUMENT_COUNT == 6
DEFAULT_KNOWLEDGE_THRESHOLD == 0
MAX_KNOWLEDGE_TOP_K == 30

\* KnowledgeSearchResult, identified by its score
Scores == {5, 20, 90}
ResultPool == {[score |-> s] : s \in Scores}

\* what KnowledgeService.search may resolve to
RetrievalOutputs == SeqsUpTo(ResultPool, MaxRetrieved)
\* what KnowledgeService.rerank may resolve to: any scores, for at most as
\* many results as it was given
RerankOutputs(filtered) == SeqsUpTo(ResultPool, Len(filtered))

\* ApiKnowledgeSearchRequest, as ApiKnowledgeSearchSchema admits it
RequestIdLists ==
    {ids \in SeqsUpTo(Ids \cup {"missing"}, Cardinality(Ids)) : Len(ids) >= 1}
SearchRequests ==
    [knowledge_base_ids : RequestIdLists,
     threshold : {None, Some(0), Some(50)},
     top_k : {None, Some(1), Some(MAX_KNOWLEDGE_TOP_K)}]

notReady_ActiveOnly(r) == ~r.isActive

\* line 32: !isSyncActive() || !hasBases()
notReady(r) == ~r.isActive \/ ~(Len(r.bases) > 0)

resolve_Strict(ids, m) ==
    IF \E i \in 1..Len(ids) : MapGet(m, ids[i]) = None THEN <<>>
    ELSE [i \in 1..Len(ids) |-> MapGet(m, ids[i])[1]]

\* lines 36-38: map(getBase).filter(Boolean)
RECURSIVE resolve(_, _)
resolve(ids, m) ==
    IF ids = <<>> THEN <<>>
    ELSE IF IsSome(MapGet(m, Head(ids)))
         THEN <<MapGet(m, Head(ids))[1]>> \o resolve(Tail(ids), m)
         ELSE resolve(Tail(ids), m)

limitOverride_Uncapped(payload) ==
    IF IsSome(payload.top_k) /\ payload.top_k[1] # 0
    THEN Some(payload.top_k[1])
    ELSE None

\* line 45: payload.top_k ? Math.min(payload.top_k, MAX_KNOWLEDGE_TOP_K) : undefined
limitOverride(payload) ==
    IF IsSome(payload.top_k) /\ payload.top_k[1] # 0
    THEN Some(Min(payload.top_k[1], MAX_KNOWLEDGE_TOP_K))
    ELSE None

allowedResults_NoOverride(payload, request) ==
    Coalesce(request.metadata.documentCount, DEFAULT_KNOWLEDGE_DOCUMENT_COUNT)

\* line 50
allowedResults(payload, request) ==
    Coalesce(limitOverride(payload),
             Coalesce(request.metadata.documentCount, DEFAULT_KNOWLEDGE_DOCUMENT_COUNT))

threshold_NoBase(payload, request) ==
    Coalesce(payload.threshold, DEFAULT_KNOWLEDGE_THRESHOLD)

\* line 51
threshold(payload, request) ==
    Coalesce(payload.threshold,
             Coalesce(request.metadata.threshold, DEFAULT_KNOWLEDGE_THRESHOLD))

\* line 58
filterResults(ragResults, thr) == SelectSeq(ragResults, LAMBDA item : item.score >= thr)

needsRerank_EvenEmpty(filtered, request) ==
    /\ IsSome(request.params.rerankApiClient)
    /\ request.params.rerankApiClient[1] # ""

\* line 61: rerankApiClient?.model is falsy without a client and with a
\* client whose model is the empty string
needsRerank(filtered, request) ==
    /\ Len(filtered) > 0
    /\ IsSome(request.params.rerankApiClient)
    /\ request.params.rerankApiClient[1] # ""

pushResult_Prepends(results, request, ranked, allowed) ==
    <<[knowledge_base_id |-> request.metadata.id,
       knowledge_base_name |-> request.metadata.name,
       results |-> Slice(ranked, allowed)]>> \o results

\* lines 69-73
pushResult(results, request, ranked, allowed) ==
    Append(results,
           [knowledge_base_id |-> request.metadata.id,
            knowledge_base_name |-> request.metadata.name,
            results |-> Slice(ranked, allowed)])

Throw_BestEffort(s, condition) ==
    IF condition = "UpstreamFailure"
    THEN [s EXCEPT !.pc = "done"]
    ELSE [s EXCEPT !.pc = "failed", !.error = condition]

\* The invocation fails: the exception leaves the function, its locals are gone.
Throw(s, condition) == [s EXCEPT !.pc = "failed", !.error = condition]

\* lines 81-84: what the caller of search receives, if the promise fulfils
searchResponse(s) ==
    IF s.pc = "done" THEN Some([object |-> "list", data |-> s.results]) ELSE None

NextRequest_Rereads(s) ==
    LET fresh == [s EXCEPT !.requests = resolve(s.payload.knowledge_base_ids, bases)] IN
    IF Len(fresh.results) < Len(fresh.requests)
    THEN [fresh EXCEPT !.pc = "retrieve", !.i = Len(fresh.results) + 1,
                       !.retrievalCalls = @ + 1]
    ELSE [fresh EXCEPT !.pc = "done"]

\* The for loop reaches its next request, or the function returns.
NextRequest(s) ==
    IF Len(s.results) < Len(s.requests)
    THEN [s EXCEPT !.pc = "retrieve", !.i = Len(s.results) + 1,
                   !.retrievalCalls = @ + 1]
    ELSE [s EXCEPT !.pc = "done"]

\* lines 32-53: from the call to the first await
searchStart(r, payload) ==
    LET s0 == [pc |-> "start", payload |-> payload, wasReady |-> (r.isActive /\ r.bases # <<>>),
               at |-> r.bases, requests |-> <<>>, i |-> 0, filtered |-> <<>>,
               results |-> <<>>, faithful |-> <<>>, reranked |-> {},
               retrievalCalls |-> 0, error |-> "none"]
    IN  IF notReady(r) THEN Throw(s0, "NotReady")
        ELSE LET requests == resolve(payload.knowledge_base_ids, r.bases) IN
             IF Len(requests) = 0 THEN Throw(s0, "NotFound")
             ELSE NextRequest([s0 EXCEPT !.requests = requests])

\* lines 69-74 and the loop's next turn
Pushed(s, ranked, isFaithful) ==
    LET request == s.requests[s.i] IN
    NextRequest([s EXCEPT
        !.results = pushResult(@, request, ranked, allowedResults(s.payload, request)),
        !.faithful = Append(@, isFaithful),
        !.filtered = <<>>])

\* lines 58-67: KnowledgeService.search resolved to ragResults
afterRetrieval(s, ragResults) ==
    LET request == s.requests[s.i]
        filtered == filterResults(ragResults, threshold(s.payload, request))
    IN  IF needsRerank(filtered, request)
        THEN [s EXCEPT !.pc = "rerank", !.filtered = filtered,
                       !.reranked = @ \cup {s.i}]
        ELSE Pushed(s, filtered, TRUE)

\* lines 62-74: KnowledgeService.rerank resolved to ranked
afterRerank(s, ranked) == Pushed(s, ranked, Range(ranked) \subseteq Range(s.filtered))

SearchCalled ==
    /\ search.pc = "idle"
    /\ \E payload \in SearchRequests :
          /\ search' = searchStart(Replica, payload)
          /\ lastCall' = [op |-> "search", payload |-> payload]
    /\ UNCHANGED <<mainVars, mainWindow, now, toRenderer, toMain, rendererVars, hist>>

RetrievalResolves ==
    /\ search.pc = "retrieve"
    /\ \E ragResults \in RetrievalOutputs :
          /\ search' = afterRetrieval(search, ragResults)
          /\ lastCall' = [op |-> "retrieved", i |-> search.i, ragResults |-> ragResults]
    /\ UNCHANGED <<mainVars, mainWindow, now, toRenderer, toMain, rendererVars, hist>>

RerankResolves ==
    /\ search.pc = "rerank"
    /\ \E ranked \in RerankOutputs(search.filtered) :
          /\ search' = afterRerank(search, ranked)
          /\ lastCall' = [op |-> "reranked", i |-> search.i, ranked |-> ranked]
    /\ UNCHANGED <<mainVars, mainWindow, now, toRenderer, toMain, rendererVars, hist>>

\* KnowledgeService.search or KnowledgeService.rerank rejects
CollaboratorRejects ==
    /\ search.pc \in {"retrieve", "rerank"}
    /\ search' = Throw(search, "UpstreamFailure")
    /\ lastCall' = [op |-> "rejected", i |-> search.i]
    /\ UNCHANGED <<mainVars, mainWindow, now, toRenderer, toMain, rendererVars, hist>>

\* the route handler has answered the request
SearchAnswered ==
    /\ search.pc \in {"done", "failed"}
    /\ search' = SearchIdle
    /\ lastCall' = [op |-> "answered"]
    /\ UNCHANGED <<mainVars, mainWindow, now, toRenderer, toMain, rendererVars, hist>>

\* The API server without the renderer: no main window, so nothing is sent;
\* snapshots arrive at the IPC handler and searches run in between.
InitSearch == Init /\ mainWindow = FALSE

\* the snapshots arriving while searches run; the rerank client of the last
\* one names no model
SearchPayloads ==
    { <<>>,
      <<SyncEntry(KnowledgeBase("a", "Docs", 1, 0, Some(10), Some(10), None)),
        SyncEntry(KnowledgeBase("b", "Notes", 1, 0, Some(1), Some(50), Some("rerank-model")))>>,
      <<[SyncEntry(KnowledgeBase("a", "Docs2", 2, 1, None, None, None))
            EXCEPT !.params.rerankApiClient = Some("")]>> }

\* The replica's handlers run between the steps of a search; lastCall keeps
\* the detail of the search's steps only.
SessionStarts == StartSyncStep /\ lastCall' = [op |-> "replica"]
SessionStops == StopSyncStep /\ lastCall' = [op |-> "replica"]
SnapshotArrives ==
    /\ \E payload \in SearchPayloads : HandleSyncPayloadStep(payload)
    /\ lastCall' = [op |-> "replica"]
    /\ UNCHANGED toMain

NextSearch ==
    \/ SessionStarts
    \/ SessionStops
    \/ SnapshotArrives
    \/ SearchCalled
    \/ RetrievalResolves
    \/ RerankResolves
    \/ CollaboratorRejects
    \/ SearchAnswered

SpecSearch == InitSearch /\ [][NextSearch]_vars

-----------------------------------------------------------------------------
(* KnowledgeStoreSyncService (renderer process)                            *)
(*                                                                         *)
(* init() has run with the knowledgeStore bridge present, so the two       *)
(* handlers are registered.  A signature is the pair of its two parts      *)
(* rather than their concatenation; identifiers hold none of , # | :       *)

\* String order of the identifiers, as Array.prototype.sort() compares them
IdRank == [id \in Ids \cup {"c", "missing"} |->
              IF id = "a" THEN 1 ELSE IF id = "b" THEN 2 ELSE IF id = "c" THEN 3 ELSE 4]

RECURSIVE Insert(_, _)
Insert(sorted, id) ==
    IF sorted = <<>> THEN <<id>>
    ELSE IF IdRank[id] < IdRank[Head(sorted)] THEN <<id>> \o sorted
         ELSE <<Head(sorted)>> \o Insert(Tail(sorted), id)

RECURSIVE Sort(_)
Sort(ids) == IF ids = <<>> THEN <<>> ELSE Insert(Sort(Tail(ids)), Head(ids))

\* lines 153-156; an empty identifier is dropped by filter(Boolean)
getSelectedKnowledgeBaseIds(state) ==
    SelectSeq(state.knowledgeBaseIds, LAMBDA id : id # "")

\* lines 158-164
filterBases(storeBases, selectedIds) ==
    IF Len(selectedIds) = 0 THEN storeBases
    ELSE SelectSeq(storeBases, LAMBDA base : base.id \in Range(selectedIds))

computeSignature_Unsorted(state) ==
    LET selectedIds == getSelectedKnowledgeBaseIds(state)
        filteredBases == filterBases(state.bases, selectedIds)
        selectionSignature == IF Len(selectedIds) > 0 THEN selectedIds ELSE <<"ALL">>
    IN  <<selectionSignature,
          [i \in 1..Len(filteredBases) |->
              <<filteredBases[i].id, filteredBases[i].updated_at,
                filteredBases[i].version, filteredBases[i].items>>]>>

\* lines 70-90: <<selection signature, per-base part>>; the per-base part of
\* no base at all is the EMPTY marker
computeSignature(state) ==
    LET selectedIds == getSelectedKnowledgeBaseIds(state)
        filteredBases == filterBases(state.bases, selectedIds)
        selectionSignature == IF Len(selectedIds) > 0 THEN Sort(selectedIds) ELSE <<"ALL">>
    IN  <<selectionSignature,
          [i \in 1..Len(filteredBases) |->
              <<filteredBases[i].id, filteredBases[i].updated_at,
                filteredBases[i].version, filteredBases[i].items>>]>>

\* lines 105-122
buildPayload(state) ==
    LET filteredBases ==
            filterBases(state.bases, getSelectedKnowledgeBaseIds(state))
    IN  [i \in 1..Len(filteredBases) |-> SyncEntry(filteredBases[i])]

\* The fields of the service and its registration with the store.
Controller ==
    [isSyncing |-> isSyncing, lastSignature |-> lastSignature,
     unsubscribe |-> unsubscribe, listeners |-> listeners]
SetController(c) ==
    /\ isSyncing' = c.isSyncing
    /\ lastSignature' = c.lastSignature
    /\ unsubscribe' = c.unsubscribe
    /\ listeners' = c.listeners

\* lines 92-103: the payloads handed to syncBases (none or one)
pushCurrentBases(c, state) ==
    IF ~c.isSyncing THEN <<>> ELSE <<buildPayload(state)>>

rendererStartSync_Resubscribes(c, state) ==
    LET c1 == [isSyncing |-> TRUE,
               lastSignature |-> Some(computeSignature(state)),
               unsubscribe |-> TRUE, listeners |-> c.listeners + 1]
    IN  [ctl |-> c1, sent |-> pushCurrentBases(c1, state)]

\* lines 40-59: startSync(reason)
rendererStartSync(c, state) ==
    IF c.isSyncing
    THEN [ctl |-> c, sent |-> pushCurrentBases(c, state)]
    ELSE LET c1 == [isSyncing |-> TRUE,
                    lastSignature |-> Some(computeSignature(state)),
                    unsubscribe |-> TRUE, listeners |-> c.listeners + 1]
         IN  [ctl |-> c1, sent |-> pushCurrentBases(c1, state)]

rendererStopSync_KeepsSubscription(c) ==
    [isSyncing |-> FALSE, lastSignature |-> None, unsubscribe |-> FALSE,
     listeners |-> c.listeners]

\* lines 61-68: stopSync()
rendererStopSync(c) ==
    [isSyncing |-> FALSE, lastSignature |-> None, unsubscribe |-> FALSE,
     listeners |-> IF c.unsubscribe THEN c.listeners - 1 ELSE c.listeners]

listener_NeverPushes(c, state) ==
    IF ~c.isSyncing THEN [ctl |-> c, sent |-> <<>>]
    ELSE [ctl |-> [c EXCEPT !.lastSignature = Some(computeSignature(state))],
          sent |-> <<>>]

listener_AlwaysPushes(c, state) ==
    IF ~c.isSyncing THEN [ctl |-> c, sent |-> <<>>]
    ELSE LET c1 == [c EXCEPT !.lastSignature = Some(computeSignature(state))]
         IN  [ctl |-> c1, sent |-> pushCurrentBases(c1, state)]

\* lines 47-57: the callback given to store.subscribe, run after a dispatch
listener(c, state) ==
    IF ~c.isSyncing THEN [ctl |-> c, sent |-> <<>>]
    ELSE IF Some(computeSignature(state)) = c.lastSignature
         THEN [ctl |-> c, sent |-> <<>>]
         ELSE LET c1 == [c EXCEPT !.lastSignature = Some(computeSignature(state))]
              IN  [ctl |-> c1, sent |-> pushCurrentBases(c1, state)]

\* the store notifies every registered callback, one after the other
RECURSIVE notify(_, _, _)
notify(c, state, n) ==
    IF n = 0 THEN [ctl |-> c, sent |-> <<>>]
    ELSE LET first == listener(c, state)
             rest == notify(first.ctl, state, n - 1)
         IN  [ctl |-> rest.ctl, sent |-> first.sent \o rest.sent]

CanPush == Len(toMain) < MaxInFlight
CountTo(n, k) == Min(n + k, MaxPushes)

\* the states of the redux store: the knowledge bases, each identifier once
\* and "a" before "b", and the allow-list of settings.apiServer
RendererBasePool ==
    BasePool \cup {KnowledgeBase("a", "Renamed", 1, 0, Some(10), Some(10), None)}
StoreBases ==
    {bs \in SeqsUpTo(RendererBasePool, Cardinality(Ids)) :
        \A i, j \in 1..Len(bs) : i < j => IdRank[bs[i].id] < IdRank[bs[j].id]}
AllowLists == {<<>>, <<"a">>, <<"missing", "b">>}
StoreStates == [bases : StoreBases, knowledgeBaseIds : AllowLists]

\* onRequestSync: startSync('initial')
OnRequestSyncStep ==
    LET out == rendererStartSync(Controller, store) IN
    /\ CanPush
    /\ SetController(out.ctl)
    /\ toMain' = toMain \o out.sent
    /\ UNCHANGED <<store, mainVars, mainWindow, now, search>>

OnStopSyncStep_Signals ==
    /\ SetController(rendererStopSync(Controller))
    /\ toMain' = IF isSyncing THEN Append(toMain, <<>>) ELSE toMain
    /\ UNCHANGED <<store, mainVars, mainWindow, now, search>>

\* onStopSync: stopSync()
OnStopSyncStep ==
    /\ SetController(rendererStopSync(Controller))
    /\ UNCHANGED <<store, toMain, mainVars, mainWindow, now, search>>

\* an action is dispatched: the store takes its next state and notifies
DispatchStep(state) ==
    LET out == notify(Controller, state, listeners) IN
    /\ CanPush
    /\ store' = state
    /\ SetController(out.ctl)
    /\ toMain' = toMain \o out.sent
    /\ UNCHANGED <<mainVars, mainWindow, now, search>>

\* What has happened since the last start from inactive: pushes issued,
\* mutations dispatched, whether one changed the signature, whether a
\* refresh was asked for.
histAfterStart ==
    LET sent == rendererStartSync(Controller, store).sent IN
    IF isSyncing
    THEN [hist EXCEPT !.refreshed = TRUE, !.pushes = CountTo(@, Len(sent))]
    ELSE [hist EXCEPT !.pushes = Len(sent), !.mutations = 0,
                      !.changed = FALSE, !.refreshed = FALSE]

histAfterDispatch(state) ==
    [hist EXCEPT
        !.pushes = CountTo(@, Len(notify(Controller, state, listeners).sent)),
        !.mutations = CountTo(@, 1),
        !.changed = @ \/ computeSignature(state) # computeSignature(store)]

\* The controller alone: the two messages of the main process arrive at any
\* time, the store is mutated at will, and each syncBases call settles.
RequestSyncArrives ==
    /\ OnRequestSyncStep
    /\ lastCall' = [op |-> "onRequestSync", wasSyncing |-> isSyncing,
                    before |-> Controller, inFlight |-> toMain]
    /\ hist' = histAfterStart
    /\ UNCHANGED toRenderer

StopSyncArrives ==
    /\ OnStopSyncStep
    /\ lastCall' = [op |-> "onStopSync", wasSyncing |-> isSyncing]
    /\ UNCHANGED <<toRenderer, hist>>

Dispatch ==
    /\ \E state \in StoreStates :
          /\ DispatchStep(state)
          /\ lastCall' = [op |-> "dispatch", mutated |-> state # store,
                          pushed |-> toMain' # toMain,
                          signatureChanged |->
                              computeSignature(state) # computeSignature(store),
                          afterFailure |-> (/\ lastCall.op = "syncBases"
                                            /\ lastCall.outcome = "rejected"
                                            /\ isSyncing)]
          /\ hist' = histAfterDispatch(state)
    /\ UNCHANGED toRenderer

pushSettled_TearsDown(c, outcome) ==
    IF outcome = "rejected" THEN rendererStopSync(c) ELSE c

\* lines 98-102: the awaited syncBases call fulfils, or it rejects and the
\* catch clause logs the error; the controller is as it was either way
pushSettled(c, outcome) == c

\* the promise of the oldest syncBases call in flight resolves or rejects
SyncBasesSettles ==
    /\ toMain # <<>>
    /\ toMain' = Tail(toMain)
    /\ \E outcome \in {"resolved", "rejected"} :
          /\ SetController(pushSettled(Controller, outcome))
          /\ lastCall' = [op |-> "syncBases", outcome |-> outcome,
                          before |-> Controller]
    /\ UNCHANGED <<store, toRenderer, hist, mainVars, mainWindow, now, search>>

InitRenderer ==
    /\ Init
    /\ mainWindow = TRUE

NextRenderer ==
    \/ RequestSyncArrives
    \/ StopSyncArrives
    \/ Dispatch
    \/ SyncBasesSettles

SpecRenderer == InitRenderer /\ [][NextRenderer]_vars

-----------------------------------------------------------------------------
(* Both processes and the two channels between them                        *)
(*                                                                         *)
(* The API server starts and stops the replica's session; each message of  *)
(* the main process reaches the renderer's handler in the order sent, and  *)
(* each syncBases call reaches handleSyncPayload in the order issued.      *)

\* the store's states: three lists of bases under two allow-lists
SystemStoreStates ==
    [bases : { <<>>,
               <<KnowledgeBase("a", "Docs", 1, 0, Some(10), Some(10), None)>>,
               <<KnowledgeBase("a", "Docs2", 2, 1, None, None, None),
                 KnowledgeBase("b", "Notes", 1, 0, Some(1), Some(50), Some("rerank-model"))>> },
     knowledgeBaseIds : {<<>>, <<"b">>}]

\* ipcRenderer delivers KnowledgeStore_RequestSync: the onRequestSync callback
OwnerGetsRequestSync ==
    /\ toRenderer # <<>>
    /\ Head(toRenderer) = "requestSync"
    /\ OnRequestSyncStep
    /\ toRenderer' = Tail(toRenderer)
    /\ lastCall' = [op |-> "onRequestSync", wasSyncing |-> isSyncing]
    /\ UNCHANGED hist

\* ipcRenderer delivers KnowledgeStore_StopSync: the onStopSync callback
OwnerGetsStopSync ==
    /\ toRenderer # <<>>
    /\ Head(toRenderer) = "stopSync"
    /\ OnStopSyncStep
    /\ toRenderer' = Tail(toRenderer)
    /\ lastCall' = [op |-> "onStopSync", wasSyncing |-> isSyncing]
    /\ UNCHANGED hist

\* the store is mutated in the renderer
OwnerDispatch ==
    /\ \E state \in SystemStoreStates :
          /\ DispatchStep(state)
          /\ lastCall' = [op |-> "dispatch", mutated |-> state # store,
                          pushed |-> toMain' # toMain]
    /\ UNCHANGED <<toRenderer, hist>>

\* ipcMain.handle(KnowledgeStore_SyncBases) receives the oldest call in
\* flight; what the handler returns resolves the renderer's await
SyncBasesDelivered ==
    /\ toMain # <<>>
    /\ HandleSyncPayloadStep(Head(toMain))
    /\ toMain' = Tail(toMain)
    /\ lastCall' = [op |-> "handleSyncPayload", wasActive |-> isActive,
                    payload |-> Head(toMain),
                    ret |-> handleSyncPayload(Replica, Head(toMain), now).ret,
                    dropped |-> ~(IdsOf(bases) \subseteq IdsOf(Head(toMain))),
                    inFlight |-> Len(toMain) - 1,
                    afterStop |-> (lastCall.op = "stopSync" /\ lastCall.wasActive)]

InitSystem ==
    /\ Init
    /\ mainWindow = TRUE

NextSystem ==
    \/ MainStartSync
    \/ MainStopSync
    \/ OwnerGetsRequestSync
    \/ OwnerGetsStopSync
    \/ OwnerDispatch
    \/ SyncBasesDelivered

SpecSystem == InitSystem /\ [][NextSystem]_vars

\* Every message in flight is delivered in the end: the renderer's event
\* loop runs the callback of a message that waits at the head of its
\* channel, and the main process runs the handler of a waiting syncBases call.
SpecSystemFair ==
    /\ SpecSystem
    /\ WF_vars(OwnerGetsRequestSync)
    /\ WF_vars(OwnerGetsStopSync)
    /\ WF_vars(SyncBasesDelivered)

-----------------------------------------------------------------------------
(* The snapshot and the signature, over the states of the store            *)

\* live bases "a", "b", "c" as the store lists them, and allow-lists over
\* their identifiers, one that no base has and the empty string
Live(id) == KnowledgeBase(id, "Docs", 1, 0, None, None, None)
LiveLists ==
    { <<>>, <<Live("b")>>, <<Live("c"), Live("a")>>,
      <<Live("a"), Live("b"), Live("c")>> }
AllowListInputs == SeqsUpTo({"a", "c", "missing", ""}, MaxAllowList)

\* a push of a syncing controller in some state of the store
SnapshotBuilt ==
    /\ \E live \in LiveLists, allow \in AllowListInputs :
          LET state == [bases |-> live, knowledgeBaseIds |-> allow]
              syncing == [isSyncing |-> TRUE,
                          lastSignature |-> Some(computeSignature(state)),
                          unsubscribe |-> TRUE, listeners |-> 1]
          IN  lastCall' = [op |-> "buildPayload", state |-> state,
                           sent |-> pushCurrentBases(syncing, state),
                           signature |-> computeSignature(state)]
    /\ UNCHANGED <<mainVars, mainWindow, now, toRenderer, toMain, rendererVars,
                   search, hist>>

NextSnapshot == SnapshotBuilt

SpecSnapshot == Init /\ [][NextSnapshot]_vars

-----------------------------------------------------------------------------
(* The result limit of a base, over the bodies POST /search may receive    *)

\* ApiKnowledgeSearchSchema.safeParse(body).success, for the fields the
\* service reads; a threshold is in hundredths
ApiKnowledgeSearchSchema(body) ==
    /\ Len(body.knowledge_base_ids) >= 1
    /\ \A i \in 1..Len(body.knowledge_base_ids) : body.knowledge_base_ids[i] # ""
    /\ body.threshold # None => (body.threshold[1] >= 0 /\ body.threshold[1] <= 100)
    /\ body.top_k # None => (body.top_k[1] > 0 /\ body.top_k[1] <= MAX_KNOWLEDGE_TOP_K)

TopKInputs == {None} \cup {Some(k) : k \in 0..(MAX_KNOWLEDGE_TOP_K + MaxOverTopK)}
DocumentCountInputs == {None} \cup {Some(n) : n \in 0..MaxDocumentCount}

\* a body reaches the route and is validated; allowedResults is what line 50
\* computes from it for a base, whether or not the route lets it through
LimitComputed ==
    /\ \E top_k \in TopKInputs, documentCount \in DocumentCountInputs :
          LET body == [knowledge_base_ids |-> <<"a">>, threshold |-> None,
                       top_k |-> top_k]
              request == SyncEntry(KnowledgeBase("a", "Docs", 1, 0, documentCount,
                                                 None, None))
          IN  lastCall' = [op |-> "limit", body |-> body, request |-> request,
                           valid |-> ApiKnowledgeSearchSchema(body),
                           allowedResults |-> allowedResults(body, request)]
    /\ UNCHANGED <<mainVars, mainWindow, now, toRenderer, toMain, rendererVars,
                   search, hist>>

NextLimit == LimitComputed

SpecLimit == Init /\ [][NextLimit]_vars

-----------------------------------------------------------------------------
(* Properties of the replica                                               *)

\* identifiers a caller may ask for: those of the pool and one no base has
LookupIds == Ids \cup {"missing"}

PayloadIds(p) == {EntryId(p[i]) : i \in 1..Len(p)}
PayloadEntry(p, id) == p[CHOOSE i \in 1..Len(p) : EntryId(p[i]) = id]

\* C2: handleSyncPayload while the session is inactive returns
\* {accepted: false} without a timestamp and leaves the base map, the active
\* flag and the last-synced timestamp as they were, whatever the payload.
C2_InactiveSyncRejected ==
    [][(lastCall'.op = "handleSyncPayload" /\ ~isActive)
          => /\ lastCall'.ret = [accepted |-> FALSE]
             /\ UNCHANGED <<bases, isActive, lastSyncedAt>>]_vars

C2_Witness ==
    /\ lastCall.op = "handleSyncPayload"
    /\ ~lastCall.wasActive
    /\ lastCall.payload # <<>>
    /\ ~lastCall.ret.accepted

\* C3: handleSyncPayload(S) while active replaces the map wholesale: getBases()
\* is the metadata projection of S, getBase / getBaseParams return S's entry
\* for every identifier of S and nothing for any other identifier, and the
\* call returns accepted with syncedAt equal to the new last-synced timestamp.
C3_FullReplace ==
    (lastCall.op = "handleSyncPayload" /\ lastCall.wasActive) =>
        LET S == lastCall.payload IN
        /\ Range(getBases) = {S[i].metadata : i \in 1..Len(S)}
        /\ Len(getBases) = Len(S)
        /\ \A id \in LookupIds :
              IF id \in PayloadIds(S)
              THEN /\ getBase(id) = Some(PayloadEntry(S, id))
                   /\ getBaseParams(id) = Some(PayloadEntry(S, id).params)
              ELSE /\ getBase(id) = None
                   /\ getBaseParams(id) = None
        /\ lastCall.ret.accepted
        /\ lastSyncedAt = Some(lastCall.ret.syncedAt)

\* an accepted snapshot that drops an identifier of the previous one
C3_Witness ==
    /\ lastCall.op = "handleSyncPayload"
    /\ lastCall.wasActive
    /\ lastCall.payload # <<>>
    /\ lastCall.had \ PayloadIds(lastCall.payload) # {}

\* C4: after any stopSync call, whatever the state before it, hasBases() is
\* false, the last-synced timestamp is null and the session is inactive.
C4_StopClears ==
    lastCall.op = "stopSync" => (~hasBases /\ getLastSyncedAt = None /\ ~isSyncActive)

C4_Witness ==
    /\ lastCall.op = "stopSync"
    /\ lastCall.wasActive
    /\ lastCall.had # {}
    /\ ~hasBases

\* C5: whenever the map is non-empty or the timestamp is non-null, the session
\* is active and at least one sync was accepted since it last became active.
C5_SyncedOnlyWhileActive ==
    (hasBases \/ getLastSyncedAt # None) => (isSyncActive /\ hist.accepted)

C5_Witness ==
    /\ hasBases
    /\ isSyncActive
    /\ hist.accepted
    /\ lastCall.op = "handleSyncPayload"

-----------------------------------------------------------------------------
(* Properties of search                                                    *)

\* The effective limit and threshold as section 4.3 states them: the request's
\* override (the limit capped at the global maximum), else the base's
\* configured value, else the system default.
EffectiveLimit(payload, entry) ==
    IF payload.top_k # None
    THEN (IF payload.top_k[1] <= MAX_KNOWLEDGE_TOP_K THEN payload.top_k[1]
          ELSE MAX_KNOWLEDGE_TOP_K)
    ELSE IF entry.metadata.documentCount # None THEN entry.metadata.documentCount[1]
    ELSE DEFAULT_KNOWLEDGE_DOCUMENT_COUNT

EffectiveThreshold(payload, entry) ==
    IF payload.threshold # None THEN payload.threshold[1]
    ELSE IF entry.metadata.threshold # None THEN entry.metadata.threshold[1]
    ELSE DEFAULT_KNOWLEDGE_THRESHOLD

\* the requested identifiers that had an entry in the replica at call time
KnownIds(s) ==
    SelectSeq(s.payload.knowledge_base_ids, LAMBDA id : id \in IdsOf(s.at))
EntryAtCall(s, id) == s.at[CHOOSE i \in 1..Len(s.at) : EntryId(s.at[i]) = id]

NoCollaboratorCalled(s) == s.retrievalCalls = 0 /\ s.reranked = {}

\* C6: search fails with NotReady whenever the session is inactive or the
\* replica holds no bases at call time, whatever the identifiers asked for;
\* then no collaborator is invoked and no results exist.
C6_NotReadyFirst ==
    /\ (lastCall.op = "search" /\ (~isSyncActive \/ ~hasBases))
          => (search.pc = "failed" /\ search.error = "NotReady")
    /\ (search.pc = "failed" /\ search.error = "NotReady")
          => (NoCollaboratorCalled(search) /\ search.results = <<>>)

\* a request naming only unknown identifiers, made of an active but empty replica
C6_Witness ==
    /\ lastCall.op = "search"
    /\ isSyncActive
    /\ ~hasBases
    /\ search.payload.knowledge_base_ids = <<"missing">>
    /\ search.error = "NotReady"

\* C7: on a ready replica the identifiers without an entry are dropped; the
\* search fails with NotFound, before any collaborator call, exactly when none
\* resolves.
C7_UnknownIdsDropped ==
    (search.pc # "idle" /\ search.wasReady) =>
        LET known == KnownIds(search) IN
        /\ (known = <<>>) <=> (search.pc = "failed" /\ search.error = "NotFound")
        /\ known = <<>> => NoCollaboratorCalled(search)
        /\ known # <<>> =>
              /\ Len(search.requests) = Len(known)
              /\ \A k \in 1..Len(known) :
                    search.requests[k] = EntryAtCall(search, known[k])

C7_Witness ==
    /\ lastCall.op = "search"
    /\ search.wasReady
    /\ search.payload.knowledge_base_ids = <<"missing", "a">>
    /\ Len(search.requests) = 1
    /\ search.pc = "retrieve"

ItemWithinLimit(s, k) ==
    Len(s.results[k].results)
        <= EffectiveLimit(s.payload, EntryAtCall(s, s.results[k].knowledge_base_id))

ItemAboveThreshold(s, k) ==
    \A n \in 1..Len(s.results[k].results) :
        s.results[k].results[n].score
            >= EffectiveThreshold(s.payload, EntryAtCall(s, s.results[k].knowledge_base_id))

\* C8 as stated: in every successful search every base has at most its
\* effective limit of results, each with a score at or above its effective
\* threshold, whatever the collaborators return.
C8_Original ==
    search.pc = "done" =>
        \A k \in 1..Len(search.results) :
            ItemWithinLimit(search, k) /\ ItemAboveThreshold(search, k)

\* C8, amended: the limit holds whatever the collaborators return; the
\* threshold holds for every base that was not reranked, and for a reranked
\* base when the rerank collaborator returned only results it was given.
C8_LimitAndThreshold ==
    search.pc = "done" =>
        \A k \in 1..Len(search.results) :
            /\ ItemWithinLimit(search, k)
            /\ search.faithful[k] => ItemAboveThreshold(search, k)

\* a successful search with a reranked base whose results passed the threshold
C8_Witness ==
    /\ search.pc = "done"
    /\ \E k \in 1..Len(search.results) :
          /\ k \in search.reranked
          /\ search.faithful[k]
          /\ search.results[k].results # <<>>
    /\ \E k \in 1..Len(search.results) :
          /\ k \notin search.reranked
          /\ Len(search.results[k].results) = 1
          /\ search.payload.top_k = Some(1)

TestBase == SyncEntry(KnowledgeBase("a", "Docs", 1, 0, Some(10), Some(10), None))
PlainRequest == [knowledge_base_ids |-> <<"a">>, threshold |-> None, top_k |-> None]

\* C9: for a base without rerank client the results are the first (effective
\* limit) elements of the retrieval output's subsequence with score >= the
\* effective threshold, in retrieval order, and rerank is not invoked; scores
\* [0.05, 0.2, 0.9] with threshold 0.1 and limit 10 give [0.2, 0.9].
C9_NoRerankPrefix ==
    /\ (lastCall.op = "retrieved"
            /\ search.requests[lastCall.i].params.rerankApiClient = None) =>
          LET e == search.requests[lastCall.i]
              thr == EffectiveThreshold(search.payload, e)
              kept == SelectSeq(lastCall.ragResults, LAMBDA item : item.score >= thr)
          IN  /\ Len(search.results) >= lastCall.i
              /\ search.results[lastCall.i].results
                    = SubSeq(kept, 1, Min(EffectiveLimit(search.payload, e), Len(kept)))
              /\ lastCall.i \notin search.reranked
    /\ LET ragResults == <<[score |-> 5], [score |-> 20], [score |-> 90]>>
           filtered == filterResults(ragResults, threshold(PlainRequest, TestBase))
       IN  /\ ~needsRerank(filtered, TestBase)
           /\ Slice(filtered, allowedResults(PlainRequest, TestBase))
                 = <<[score |-> 20], [score |-> 90]>>

C9_Witness ==
    /\ lastCall.op = "retrieved"
    /\ search.requests[lastCall.i] = TestBase
    /\ search.payload.threshold = None
    /\ search.payload.top_k = None
    /\ lastCall.ragResults = <<[score |-> 5], [score |-> 90]>>
    /\ search.results[lastCall.i].results = <<[score |-> 90]>>

C12_ListBases ==
    lastCall.op = "listBases" =>
        LET ret == lastCall.ret IN
        /\ ~ret.ok <=> (~isActive \/ bases = <<>>)
        /\ ~ret.ok => ret.error = "NotReady"
        /\ ret.ok =>
              /\ ret.object = "list"
              /\ Len(ret.data) = Len(bases)
              /\ \A i \in 1..Len(bases) : ret.data[i] = bases[i].metadata
              /\ ret.total = Len(bases)
              /\ lastSyncedAt # None
              /\ ret.syncedAt = Some(toISOString(lastSyncedAt[1]))

\* two bases listed after a later snapshot replaced an earlier one
C12_Witness ==
    /\ lastCall.op = "listBases"
    /\ lastCall.ret.ok
    /\ lastCall.ret.total = 2
    /\ lastCall.ret.syncedAt = Some(toISOString(2))

\* C17: the requests of a search are entries of the one replica state read
\* at the call, and stay as resolved then through every retrieval and rerank
\* await, whatever handleSyncPayload or stopSync does to the replica in
\* between; each item pushed takes its identifier, its name and its limit
\* from the request resolved at the call.
C17_ResolvedBeforeFirstAwait ==
    [][(search.pc \in {"retrieve", "rerank"} /\ search'.pc # "idle")
          => /\ search'.requests = search.requests
             /\ search'.at = search.at
             /\ \A k \in 1..Len(search'.requests) :
                   search'.requests[k] = EntryAtCall(search, KnownIds(search)[k])
             /\ Len(search'.results) # Len(search.results)
                   => LET request == search.requests[search.i]
                          item == search'.results[search.i]
                      IN  /\ Len(search'.results) = search.i
                          /\ item.knowledge_base_id = request.metadata.id
                          /\ item.knowledge_base_name = request.metadata.name
                          /\ Len(item.results)
                                <= allowedResults(search.payload, request)]_vars

\* a search of two bases completes after the session was stopped under it
C17_Witness ==
    /\ search.pc = "done"
    /\ Len(search.results) = 2
    /\ search.results[2].results # <<>>
    /\ ~isActive
    /\ bases = <<>>
    /\ search.at # <<>>

\* C22 as stated: rerank is called for a resolved base exactly when the
\* filtered sequence is non-empty and the base's params carry a rerank client.
C22_Original ==
    lastCall.op = "retrieved" =>
        LET request == search.requests[lastCall.i]
            thr == EffectiveThreshold(search.payload, request)
            f == SelectSeq(lastCall.ragResults, LAMBDA item : item.score >= thr)
        IN  (search.pc = "rerank")
               <=> (f # <<>> /\ request.params.rerankApiClient # None)

\* C22: KnowledgeService.rerank is called for a resolved base exactly when
\* the threshold-filtered sequence is non-empty and the base's params carry a
\* rerank client that names a model; it is given the whole filtered sequence,
\* never an empty one, and the limit is applied to what it returns.
C22_RerankIffFilteredAndModel ==
    /\ lastCall.op = "retrieved" =>
          LET request == search.requests[lastCall.i]
              thr == EffectiveThreshold(search.payload, request)
              f == SelectSeq(lastCall.ragResults, LAMBDA item : item.score >= thr)
              client == request.params.rerankApiClient
          IN  /\ (search.pc = "rerank")
                    <=> (f # <<>> /\ client # None /\ client # Some(""))
              /\ search.pc = "rerank"
                    => /\ search.i = lastCall.i
                       /\ search.filtered = f
                       /\ lastCall.i \in search.reranked
              /\ search.pc # "rerank"
                    => /\ lastCall.i \notin search.reranked
                       /\ search.results[lastCall.i].results
                             = Slice(f, EffectiveLimit(search.payload, request))
    /\ search.pc = "rerank" => search.filtered # <<>>
    /\ lastCall.op = "reranked" =>
          /\ lastCall.i \in search.reranked
          /\ search.results[lastCall.i].results
                = Slice(lastCall.ranked,
                        EffectiveLimit(search.payload, search.requests[lastCall.i]))

\* rerank returned two results for a base whose limit is one
C22_Witness ==
    /\ lastCall.op = "reranked"
    /\ Len(lastCall.ranked) = 2
    /\ search.payload.top_k = None
    /\ search.requests[lastCall.i].metadata.documentCount = Some(1)
    /\ Len(search.results[lastCall.i].results) = 1
    /\ search.results[lastCall.i].results[1] = lastCall.ranked[1]

\* C11: when KnowledgeService.search or KnowledgeService.rerank rejects for one
\* resolved base the search fails as a whole: the caller receives no response,
\* whatever was already pushed for earlier bases, and a response, when there
\* is one, has an item for every resolved base.
C11_NoPartialResponse ==
    /\ lastCall.op = "rejected"
          => /\ search.pc = "failed"
             /\ search.error = "UpstreamFailure"
             /\ searchResponse(search) = None
    /\ search.pc = "failed" => searchResponse(search) = None
    /\ searchResponse(search) # None
          => /\ Len(searchResponse(search)[1].data) = Len(search.requests)
             /\ search.retrievalCalls = Len(search.requests)

\* the second base's collaborator rejects after the first base's results
\* were pushed
C11_Witness ==
    /\ lastCall.op = "rejected"
    /\ lastCall.i = 2
    /\ Len(search.results) = 1
    /\ search.results[1].results # <<>>
    /\ search.pc = "failed"

-----------------------------------------------------------------------------
(* Properties of the replica's session                                     *)

\* C13 as stated: every startSync call sends requestSync to the renderer and
\* leaves the session active, the base map kept as it was.
C13_Original ==
    [][lastCall'.op = "startSync"
          => /\ toRenderer' = Append(toRenderer, "requestSync")
             /\ isActive'
             /\ bases' = bases]_vars

\* C13: every startSync call leaves the session active with the base map and
\* the timestamp as they were; it sends requestSync to the renderer, from
\* inactive and from active alike, when there is a main window, and sends
\* nothing when there is none.
C13_StartRequestsSync ==
    [][lastCall'.op = "startSync"
          => /\ isActive'
             /\ bases' = bases
             /\ lastSyncedAt' = lastSyncedAt
             /\ toRenderer' = IF mainWindow
                              THEN Append(toRenderer, "requestSync")
                              ELSE toRenderer]_vars

\* a start of an active session that holds bases: the request is sent again
C13_Witness ==
    /\ lastCall.op = "startSync"
    /\ lastCall.wasActive
    /\ isActive
    /\ bases # <<>>
    /\ toRenderer # <<>>
    /\ toRenderer[Len(toRenderer)] = "requestSync"
    /\ lastCall.sent = <<"requestSync">>

\* C14 as stated: stopSync of an active session sends stopSync to the
\* renderer, and a stopSync that follows a stopSync changes nothing.
C14_Original ==
    [][/\ (lastCall'.op = "stopSync" /\ isActive)
              => toRenderer' = Append(toRenderer, "stopSync")
       /\ (lastCall.op = "stopSync" /\ lastCall'.op = "stopSync")
              => UNCHANGED <<bases, isActive, lastSyncedAt, toRenderer>>]_vars

\* C14: stopSync of an active session sends stopSync to the renderer when
\* there is a main window and nothing when there is none; a stopSync that
\* follows a stopSync finds the replica inactive, empty and without timestamp
\* and leaves it so, sending nothing.
C14_StopSignalsIdempotent ==
    [][/\ (lastCall'.op = "stopSync" /\ isActive)
              => toRenderer' = IF mainWindow
                               THEN Append(toRenderer, "stopSync")
                               ELSE toRenderer
       /\ (lastCall.op = "stopSync" /\ lastCall'.op = "stopSync")
              => /\ ~isActive /\ bases = <<>> /\ lastSyncedAt = None
                 /\ UNCHANGED <<bases, isActive, lastSyncedAt, toRenderer>>]_vars

\* the second of two consecutive stops, the first of which sent the signal
C14_Witness ==
    /\ lastCall.op = "stopSync"
    /\ lastCall.again
    /\ ~lastCall.wasActive
    /\ toRenderer # <<>>
    /\ toRenderer[Len(toRenderer)] = "stopSync"
    /\ ~isActive /\ bases = <<>> /\ lastSyncedAt = None

-----------------------------------------------------------------------------
(* Properties of the two processes together                                *)

\* C15: with the replica active, after each delivery of a syncBases call the
\* base map is exactly the snapshot just delivered, entry for entry, whatever
\* was delivered before and whatever is still in flight.
C15_LastDeliveredWins ==
    (lastCall.op = "handleSyncPayload" /\ lastCall.wasActive) =>
        LET S == lastCall.payload IN
        /\ Len(bases) = Len(S)
        /\ \A i \in 1..Len(S) : bases[i] = S[i]
        /\ lastCall.ret.accepted

\* a snapshot delivered while another is in flight, lacking an identifier
\* the replica held from an earlier snapshot
C15_Witness ==
    /\ lastCall.op = "handleSyncPayload"
    /\ lastCall.wasActive
    /\ lastCall.inFlight >= 1
    /\ lastCall.dropped
    /\ lastCall.payload # <<>>
    /\ toMain # <<>>
    /\ toMain[1] # lastCall.payload

\* C16: a syncBases call delivered while the session is inactive returns
\* {accepted: false} and changes nothing, so an inactive replica is empty and
\* without timestamp however many snapshots reach it after stopSync.
C16_LatePushRejected ==
    /\ ~isActive => (bases = <<>> /\ lastSyncedAt = None)
    /\ (lastCall.op = "handleSyncPayload" /\ ~lastCall.wasActive)
          => /\ lastCall.ret = [accepted |-> FALSE]
             /\ ~isActive

\* the snapshot delivered right after stopSync was in flight when it ran
C16_Witness ==
    /\ lastCall.op = "handleSyncPayload"
    /\ lastCall.afterStop
    /\ ~lastCall.wasActive
    /\ lastCall.payload # <<>>
    /\ lastCall.ret = [accepted |-> FALSE]
    /\ bases = <<>>

\* C20 as stated: the renderer's stopSync, run while syncing, emits a message
\* towards the main process.
C20_Original ==
    [][(lastCall'.op = "onStopSync" /\ isSyncing)
          => Len(toMain') > Len(toMain)]_vars

\* C20: the renderer's stopSync emits nothing towards the main process; it
\* runs on the stopSync message of the main process and leaves the
\* controller inactive.
C20_StopEmitsNothing ==
    [][lastCall'.op = "onStopSync"
          => /\ toMain' = toMain
             /\ Head(toRenderer) = "stopSync"
             /\ ~isSyncing']_vars

\* a stop of a syncing controller, the replica's session already stopped
C20_Witness ==
    /\ lastCall.op = "onStopSync"
    /\ lastCall.wasSyncing
    /\ ~isSyncing
    /\ ~isActive

-----------------------------------------------------------------------------
(* Properties of the owner-side controller                                 *)

\* C1: after a start from Inactive, as long as every mutation of the store
\* left the fingerprint as it was at the start (and no refresh was asked
\* for), exactly one snapshot has been pushed, however many mutations there
\* were.
C1_NoRedundantPush ==
    (isSyncing /\ ~hist.changed /\ ~hist.refreshed) => hist.pushes = 1

\* two or more mutations, the last one a real change of the store (a rename)
C1_Witness ==
    /\ isSyncing
    /\ ~hist.changed
    /\ ~hist.refreshed
    /\ hist.mutations >= 2
    /\ lastCall.op = "dispatch"
    /\ lastCall.mutated
    /\ hist.pushes = 1

\* C18: startSync of a controller that is already syncing pushes the current
\* snapshot, whether or not the signature differs from the stored one, and
\* leaves the subscription, the number of registered callbacks and the stored
\* signature as they were.
C18_StartWhileActiveRefreshes ==
    (lastCall.op = "onRequestSync" /\ lastCall.wasSyncing) =>
        /\ toMain = Append(lastCall.inFlight, buildPayload(store))
        /\ isSyncing
        /\ listeners = lastCall.before.listeners
        /\ unsubscribe = lastCall.before.unsubscribe
        /\ lastSignature = lastCall.before.lastSignature

\* a refresh with the signature as stored: the same snapshot is in flight twice
C18_Witness ==
    /\ lastCall.op = "onRequestSync"
    /\ lastCall.wasSyncing
    /\ isSyncing
    /\ lastSignature = Some(computeSignature(store))
    /\ ~hist.changed
    /\ listeners = 1
    /\ Len(toMain) = 2
    /\ toMain[1] = toMain[2]
    /\ toMain[2] = buildPayload(store)

\* C19: the controller has at most one callback subscribed, and has one
\* exactly while it is syncing; stopSync leaves it not syncing, without
\* subscription and without stored signature, which is how a controller that
\* is not syncing already is; no dispatch pushes while it is not syncing.
C19_OneSubscriptionWhileActive ==
    /\ listeners \in {0, 1}
    /\ (listeners = 1) <=> isSyncing
    /\ unsubscribe <=> isSyncing
    /\ ~isSyncing => lastSignature = None
    /\ lastCall.op = "onStopSync"
          => (~isSyncing /\ listeners = 0 /\ ~unsubscribe /\ lastSignature = None)
    /\ (lastCall.op = "dispatch" /\ ~isSyncing) => ~lastCall.pushed

\* after a session was started and stopped, a dispatch that changes the
\* store pushes nothing
C19_Witness ==
    /\ lastCall.op = "dispatch"
    /\ lastCall.mutated
    /\ ~isSyncing
    /\ hist.pushes >= 1
    /\ ~lastCall.pushed
    /\ listeners = 0

\* C21: the settling of a syncBases call, rejected or not, changes nothing of
\* the controller: a syncing controller is still syncing with its one callback
\* subscribed, and a dispatch that changes the signature right after a
\* rejected call pushes the snapshot of the new state.
C21_FailedPushKeepsSession ==
    /\ lastCall.op = "syncBases"
          => /\ Controller = lastCall.before
             /\ lastCall.before.isSyncing => (isSyncing /\ unsubscribe /\ listeners = 1)
    /\ (lastCall.op = "dispatch" /\ lastCall.afterFailure /\ lastCall.signatureChanged)
          => /\ lastCall.pushed
             /\ toMain # <<>>
             /\ toMain[Len(toMain)] = buildPayload(store)
             /\ lastSignature = Some(computeSignature(store))
             /\ isSyncing

\* a dispatch that changed the signature pushed, right after a push had failed
C21_Witness ==
    /\ lastCall.op = "dispatch"
    /\ lastCall.afterFailure
    /\ lastCall.signatureChanged
    /\ lastCall.pushed
    /\ isSyncing
    /\ listeners = 1
    /\ toMain # <<>>
    /\ toMain[Len(toMain)] = buildPayload(store)

\* C24 as stated: two states of the store with the same signature give the
\* same snapshot, so a dispatch that leaves the signature as it was leaves
\* buildPayload's result as it was.
C24_Original ==
    [][computeSignature(store') = computeSignature(store)
          => buildPayload(store') = buildPayload(store)]_vars

-----------------------------------------------------------------------------
(* Properties of the result limit                                          *)

\* C23: for a body the schema admits, the limit of a base is the smaller of
\* top_k and MAX_KNOWLEDGE_TOP_K when the body has a top_k, whatever the
\* base's documentCount; else the base's documentCount when it has one, else
\* the default.  A top_k above the maximum, which the schema refuses, would
\* be cut to the maximum by the service itself.
C23_EffectiveLimit ==
    lastCall.op = "limit" =>
        LET top_k == lastCall.body.top_k
            documentCount == lastCall.request.metadata.documentCount
            limit == lastCall.allowedResults
        IN  /\ (lastCall.valid /\ top_k # None)
                  => /\ limit = IF top_k[1] <= MAX_KNOWLEDGE_TOP_K
                                THEN top_k[1] ELSE MAX_KNOWLEDGE_TOP_K
                     /\ limit <= MAX_KNOWLEDGE_TOP_K
            /\ (lastCall.valid /\ top_k = None /\ documentCount # None)
                  => limit = documentCount[1]
            /\ (lastCall.valid /\ top_k = None /\ documentCount = None)
                  => limit = DEFAULT_KNOWLEDGE_DOCUMENT_COUNT
            /\ (top_k # None /\ top_k[1] > MAX_KNOWLEDGE_TOP_K)
                  => limit = MAX_KNOWLEDGE_TOP_K

\* the largest top_k the schema admits, over a base configured for fewer
C23_Witness ==
    /\ lastCall.op = "limit"
    /\ lastCall.valid
    /\ lastCall.body.top_k = Some(MAX_KNOWLEDGE_TOP_K)
    /\ lastCall.request.metadata.documentCount = Some(MaxDocumentCount)
    /\ lastCall.allowedResults = MAX_KNOWLEDGE_TOP_K

-----------------------------------------------------------------------------
(* Properties of the snapshot and the signature                            *)

\* the identifiers of an allow-list that getSelectedKnowledgeBaseIds keeps
Selected(allow) == SelectSeq(allow, LAMBDA id : id # "")
Occurrences(ids, id) == Cardinality({i \in 1..Len(ids) : ids[i] = id})

\* the live bases a snapshot is to hold, in the store's order
Wanted(state) ==
    IF Selected(state.knowledgeBaseIds) = <<>> THEN state.bases
    ELSE SelectSeq(state.bases,
                   LAMBDA base : base.id \in Range(Selected(state.knowledgeBaseIds)))

SnapshotIsWanted ==
    LET state == lastCall.state
        payload == lastCall.sent[1]
    IN  /\ Len(lastCall.sent) = 1
        /\ Len(payload) = Len(Wanted(state))
        /\ \A i \in 1..Len(payload) :
              /\ payload[i].metadata.id = Wanted(state)[i].id
              /\ payload[i].metadata = toSummary(Wanted(state)[i])
        /\ \A i \in 1..Len(payload) : payload[i].metadata.id # "missing"

\* C25 as stated: every snapshot pushed holds exactly the live bases the
\* allow-list names (all of them when it is empty) in the store's order, and
\* the selection signature is the same for two allow-lists with the same set
\* of identifiers.
C25_Original ==
    lastCall.op = "buildPayload" =>
        /\ SnapshotIsWanted
        /\ \A other \in AllowListInputs :
              Range(Selected(other)) = Range(Selected(lastCall.state.knowledgeBaseIds))
                 => computeSignature([lastCall.state EXCEPT !.knowledgeBaseIds = other])[1]
                       = lastCall.signature[1]

\* C25: every snapshot pushed holds exactly the live bases the allow-list
\* names (all of them when it is empty) in the store's order, identifiers
\* without a live base neither failing the push nor appearing in it; the
\* selection signature is the same for two allow-lists that hold the same
\* identifiers the same number of times, in whatever order.
C25_SnapshotAndSelection ==
    lastCall.op = "buildPayload" =>
        /\ SnapshotIsWanted
        /\ \A other \in AllowListInputs :
              (\A id \in Range(other) \cup Range(lastCall.state.knowledgeBaseIds) :
                  id # "" => Occurrences(other, id)
                                = Occurrences(lastCall.state.knowledgeBaseIds, id))
                 => computeSignature([lastCall.state EXCEPT !.knowledgeBaseIds = other])[1]
                       = lastCall.signature[1]

\* allow-list c, a over the live bases a, b, c
C25_Witness ==
    /\ lastCall.op = "buildPayload"
    /\ lastCall.state.knowledgeBaseIds = <<"c", "a">>
    /\ Len(lastCall.state.bases) = 3
    /\ lastCall.signature[1] = <<"a", "c">>
    /\ Len(lastCall.sent) = 1
    /\ Len(lastCall.sent[1]) = 2
    /\ lastCall.sent[1][1].metadata.id = "a"
    /\ lastCall.sent[1][2].metadata.id = "c"

-----------------------------------------------------------------------------
(* Convergence of the replica                                              *)

\* identifier, updated_at and version of the replica's bases and of the live
\* bases the owner has selected
ReplicaVersions ==
    {<<bases[i].metadata.id, bases[i].metadata.updated_at, bases[i].metadata.version>> :
        i \in 1..Len(bases)}
OwnerVersions ==
    {<<Wanted(store)[i].id, Wanted(store)[i].updated_at, Wanted(store)[i].version>> :
        i \in 1..Len(Wanted(store))}
Converged == ReplicaVersions = OwnerVersions

====
